---- MODULE Spec2Model ----
\* Model of simple_graph_etl: DocumentLibrary (documentlibrary.py) and
\* SimpleETL (simpleetl.py).  One client instance, used single-threaded:
\* every request of an operation is one step, the remote service, the token
\* provider and the local filesystem answer nondeterministically.
EXTENDS Integers, Sequences, FiniteSets, TLC

\* ---------------------------------------------------------------- bounds
\* Largest number of child entries in one listing response.
MaxEntries == 2

\* ------------------------------------------------------ input alphabets
Names == {"a.csv", "b.csv"}
RemotePaths == {"docs"}
\* the token the provider's cache holds and the one a fresh request returns
CachedToken == "tok-cached"
FreshToken == "tok-fresh"
AuthErrors == {"invalid_client"}
UploadUrls == {"https://up.example/session1"}
\* 200 ok, 201 created, 204 no content (raise_for_status() returns None),
\* 401 unauthorized (raise_for_status() raises HTTPError)
Statuses == {200, 201, 204, 401}
\* byte contents of sizes 0 and 10
Blobs == {<<>>, <<1, 2, 3, 4, 5, 6, 7, 8, 9, 10>>}
EmptyBody == <<>>
\* value standing for an absent dict key / absent header
Missing == "<missing>"
\* Python's None once formatted or stored
None == "None"

\* ------------------------------------------------------------ formatting
Digit(d) ==
  CASE d = 0 -> "0" [] d = 1 -> "1" [] d = 2 -> "2" [] d = 3 -> "3"
    [] d = 4 -> "4" [] d = 5 -> "5" [] d = 6 -> "6" [] d = 7 -> "7"
    [] d = 8 -> "8" [] d = 9 -> "9"

\* f'{n}' for an int
RECURSIVE Str(_)
Str(n) ==
  IF n < 0 THEN "-" \o Str(0 - n)
  ELSE IF n < 10 THEN Digit(n)
  ELSE Str(n \div 10) \o Digit(n % 10)

\* ------------------------------------------------------ DocumentLibrary
site_id == "site1"
res_id == "drive1"

\* the literal continues over a backslash-newline, so the indentation of the
\* second source line is part of the URL
get_base_url ==
  "https://graph.microsoft.com/v1.0/sites/ " \o "            "
    \o site_id \o "/drives/" \o res_id

base_url == get_base_url

\* ------------------------------------------------------------- requests
ListUrl(remote_path) == base_url \o "/root:/" \o remote_path \o ":/children"

DeleteUrl(item_id) == (base_url \o "/items/") \o item_id

SessionUrl(remote_path, file_name) ==
  base_url \o "/root:/ " \o "            " \o remote_path \o "/" \o file_name
    \o ":/createUploadSession"

AuthHeaderNoToken(tok) == "Bearer "

AuthHeader(tok) == "Bearer " \o tok

Request(method, url, auth, clen, crange, body) ==
  [method |-> method, url |-> url, auth |-> auth,
   clen |-> clen, crange |-> crange, body |-> body]

Response(st, content) == [status |-> st, content |-> content]

ContentLength(file_size) == Str(file_size)

ContentRange(file_size) ==
  "bytes 0-" \o Str(file_size - 1) \o "/" \o Str(file_size)

\* requests.Response.raise_for_status(): raises HTTPError for 4xx and 5xx
RaisesForStatus(st) == st >= 400 /\ st < 600

NoErr == [site |-> "none", exc |-> "none", idx |-> 0]

\* raise Exception('...' + f'{resp.raise_for_status()}'): the f-string is
\* evaluated first, so a 4xx/5xx status surfaces as HTTPError from the same
\* statement and any other status as the Exception itself
Raise(site, st, i) ==
  [site |-> site, exc |-> IF RaisesForStatus(st) THEN "HTTPError" ELSE "Exception",
   idx |-> i]

\* ----------------------------------------------------- listing entries
ItemId(i) == "item" \o Str(i)

DownloadUrl(i) == "https://dl.example/" \o ItemId(i)

\* kinds of child entry: a folder (file flag false, no download URL), a file
\* with the '@microsoft.graph.downloadUrl' key and a file without it
EntryKinds == {"folder", "file", "file_no_url"}

\* child entries: name, id (unique within a listing), the file flag and the
\* download URL
Listings ==
  UNION { { [i \in 1..n |-> [name |-> nm[i], id |-> ItemId(i), file |-> kd[i] # "folder",
                             downloadUrl |-> IF kd[i] = "file" THEN DownloadUrl(i) ELSE Missing]] :
              nm \in [1..n -> Names], kd \in [1..n -> EntryKinds] } :
          n \in 0..MaxEntries }

\* ------------------------------------------------------ token provider
NoResult == [none |-> TRUE, keys |-> {}, access_token |-> "", error |-> ""]

TokenResult(t) == [none |-> FALSE, keys |-> {"access_token"}, access_token |-> t, error |-> ""]

ErrorResult(e) == [none |-> FALSE, keys |-> {"error"}, access_token |-> "", error |-> e]

EmptyResult == [none |-> FALSE, keys |-> {}, access_token |-> "", error |-> ""]

\* acquire_token_silent: None, or a dict (possibly an error dict)
SilentResults ==
  {NoResult, EmptyResult, TokenResult(CachedToken)} \cup {ErrorResult(e) : e \in AuthErrors}

\* acquire_token_for_client: always a dict
ClientResults ==
  {EmptyResult, TokenResult(FreshToken)} \cup {ErrorResult(e) : e \in AuthErrors}

\* Python truthiness of the silent result: None and {} are falsy
Falsy(result) == result.none \/ result.keys = {}

\* result.get('error')
GetError(result) == IF "error" \in result.keys THEN result.error ELSE None

NeedsExplicitAlways(silent) == TRUE

NeedsExplicit(silent) == Falsy(silent)

\* ------------------------------------------------- SimpleETL helpers
\* __get_item_id: no break in the loop, every match overwrites item_id
RECURSIVE get_item_id_from(_, _, _, _)
get_item_id_from(file_items, target_name, i, item_id) ==
  IF i > Len(file_items) THEN item_id
  ELSE get_item_id_from(file_items, target_name, i + 1,
         IF file_items[i].name = target_name THEN file_items[i].id ELSE item_id)

RECURSIVE get_item_id_first(_, _)
get_item_id_first(file_items, target_name) ==
  IF file_items = <<>> THEN ""
  ELSE IF Head(file_items).name = target_name THEN Head(file_items).id
  ELSE get_item_id_first(Tail(file_items), target_name)

\* a lookup that forgets to compare the names
get_item_id_any(file_items, target_name) ==
  IF file_items = <<>> THEN "" ELSE file_items[Len(file_items)].id

get_item_id(file_items, target_name) == get_item_id_from(file_items, target_name, 1, "")

\* the loop of filenames(): append obj['name'] when obj['file']
RECURSIVE FileNamesNoFilter(_)
FileNamesNoFilter(objs_) ==
  IF objs_ = <<>> THEN <<>>
  ELSE <<Head(objs_).name>> \o FileNamesNoFilter(Tail(objs_))

RECURSIVE FileNames(_)
FileNames(objs_) ==
  IF objs_ = <<>> THEN <<>>
  ELSE (IF Head(objs_).file THEN <<Head(objs_).name>> ELSE <<>>) \o FileNames(Tail(objs_))

ListOkLoose(st) == st >= 200 /\ st < 300

\* file_list_resp.status_code == 200
ListOk(st) == st = 200

\* upload_session.status_code == 200
SessionOk(st) == st = 200

\* file_data.status_code == 200
DownloadOk(st) == st = 200

DeleteOkLoose(st) == st \in {200, 204}

\* not (delete_response.status_code != 204)
DeleteOk(st) == st = 204

\* not (upload_response.status_code != 201)
PutOk(st) == st = 201

\* local directory after open(name, 'wb').write(data)
WriteFile(fs, name, data) ==
  [n \in (DOMAIN fs) \cup {name} |-> IF n = name THEN data ELSE fs[n]]

\* ----------------------------------------------------------------- state
VARIABLES
  client,     \* "absent" | "ready" | "failed": outcome of __init__
  token,      \* self.__token
  authCalls,  \* calls made to the token provider, in order
  authResults,\* what the provider answered (locals of __acquire_token)
  authErr,    \* argument of the exception raised by __acquire_token
  pc,         \* "new" | "idle" | "fetch" | "delete" | "upload" | "done" | "dead"
  op,         \* operation in progress or just finished
  args,       \* its arguments
  objs,       \* file_list_resp.json()['value'] of the current call
  idx,        \* position of the fetch loop in objs
  upload_url, \* upload_session.json()['uploadUrl']
  reqs,       \* HTTP requests issued by the current call, in order
  resps,      \* their responses
  io,         \* local file operations of the current call, in order
  files,      \* local directory: file name -> bytes
  ret,        \* return value of the call
  err,        \* exception that left the call, NoErr if none
  token0      \* history: the token stored by __init__

vars == <<client, token, authCalls, authResults, authErr, pc, op, args, objs, idx, upload_url,
          reqs, resps, io, files, ret, err, token0>>

NoArgs == [remote_path |-> "", file_name |-> ""]

\* the local directory holds no file before the first fetch
EmptyDir == [n \in {} |-> EmptyBody]

Init ==
  /\ client = "absent"
  /\ token = ""
  /\ authCalls = <<>>
  /\ authResults = <<>>
  /\ authErr = ""
  /\ pc = "new"
  /\ op = "none"
  /\ args = NoArgs
  /\ objs = <<>>
  /\ idx = 0
  /\ upload_url = ""
  /\ reqs = <<>>
  /\ resps = <<>>
  /\ io = <<>>
  /\ files = EmptyDir
  /\ ret = <<>>
  /\ err = NoErr
  /\ token0 = ""

\* -------------------------------------------------------------- __init__
\* __init__ with __acquire_token inlined
Construct(silent, explicit) ==
  /\ pc = "new"
  /\ LET asked == NeedsExplicit(silent)
         result == IF asked THEN explicit ELSE silent
     IN /\ authCalls' = IF asked THEN <<"acquire_token_silent", "acquire_token_for_client">>
                                 ELSE <<"acquire_token_silent">>
        /\ authResults' = IF asked THEN <<silent, explicit>> ELSE <<silent>>
        /\ IF "access_token" \in result.keys
           THEN /\ token' = result.access_token
                /\ token0' = result.access_token
                /\ client' = "ready"
                /\ authErr' = ""
                /\ pc' = "done"
           ELSE /\ authErr' = GetError(result)
                /\ client' = "failed"
                /\ pc' = "dead"
                /\ UNCHANGED <<token, token0>>
  /\ op' = "__init__"
  /\ UNCHANGED <<args, objs, idx, upload_url, reqs, resps, io, files, ret, err>>

\* ------------------------------------------------------------- filenames
filenames(remote_path, st, value) ==
  /\ pc = "idle"
  /\ ~ListOk(st) => value = <<>>
  /\ op' = "filenames"
  /\ args' = [remote_path |-> remote_path, file_name |-> ""]
  /\ reqs' = <<Request("GET", ListUrl(remote_path), AuthHeader(token), Missing, Missing, EmptyBody)>>
  /\ resps' = <<Response(st, EmptyBody)>>
  /\ objs' = value
  /\ IF ListOk(st)
     THEN ret' = FileNames(value) /\ err' = NoErr
     ELSE ret' = <<>> /\ err' = Raise("list", st, 0)
  /\ pc' = "done"
  /\ UNCHANGED <<client, token, authCalls, authResults, authErr, idx, upload_url, io, files, token0>>

\* ----------------------------------------------------------------- fetch
\* the listing request of fetch
fetch_list(remote_path, st, value) ==
  /\ pc = "idle"
  /\ ~ListOk(st) => value = <<>>
  /\ op' = "fetch"
  /\ args' = [remote_path |-> remote_path, file_name |-> ""]
  /\ reqs' = <<Request("GET", ListUrl(remote_path), AuthHeader(token), Missing, Missing, EmptyBody)>>
  /\ resps' = <<Response(st, EmptyBody)>>
  /\ objs' = value
  /\ IF ListOk(st)
     THEN /\ err' = NoErr
          /\ idx' = 1
          /\ pc' = IF value = <<>> THEN "done" ELSE "fetch"
     ELSE /\ err' = Raise("list", st, 0)
          /\ idx' = 0
          /\ pc' = "done"
  /\ UNCHANGED <<client, token, authCalls, authResults, authErr, upload_url, io, files, ret, token0>>

\* position after the loop body of entry idx completed normally
FetchAdvance ==
  /\ idx' = idx + 1
  /\ pc' = IF idx + 1 > Len(objs) THEN "done" ELSE "fetch"

FetchAbortKeepGoing(e) ==
  /\ FetchAdvance
  /\ err' = NoErr

\* an exception leaves the loop and the call
FetchAbort(e) ==
  /\ err' = e
  /\ pc' = "done"
  /\ idx' = idx

\* one iteration of the loop of fetch over objs[idx]
fetch_obj(st, data, writable) ==
  /\ pc = "fetch"
  /\ idx <= Len(objs)
  /\ ~DownloadOk(st) => data = EmptyBody
  /\ LET obj == objs[idx] IN
     IF ~obj.file
     THEN /\ FetchAdvance
          /\ UNCHANGED <<reqs, resps, io, files, err>>
     ELSE IF obj.downloadUrl = Missing
     THEN \* obj['@microsoft.graph.downloadUrl'] raises KeyError
          /\ FetchAbort([site |-> "subscript", exc |-> "KeyError", idx |-> idx])
          /\ UNCHANGED <<reqs, resps, io, files>>
     ELSE /\ reqs' = Append(reqs, Request("GET", obj.downloadUrl, Missing, Missing, Missing, EmptyBody))
          /\ resps' = Append(resps, Response(st, data))
          /\ IF DownloadOk(st)
             THEN IF writable
                  THEN /\ io' = Append(io, [kind |-> "write", name |-> obj.name, data |-> data])
                       /\ files' = WriteFile(files, obj.name, data)
                       /\ FetchAdvance
                       /\ UNCHANGED err
                  ELSE \* except Exception as err: raise f'...' is a TypeError
                       /\ FetchAbort([site |-> "write", exc |-> "TypeError", idx |-> idx])
                       /\ UNCHANGED <<io, files>>
             ELSE /\ FetchAbort(Raise("download", st, idx))
                  /\ UNCHANGED <<io, files>>
  /\ UNCHANGED <<client, token, authCalls, authResults, authErr, op, args, objs, upload_url, ret, token0>>

\* ---------------------------------------------------------------- delete
\* the listing request of delete and the lookup of the item id
delete_list(remote_path, file_name, st, value) ==
  /\ pc = "idle"
  /\ ~ListOk(st) => value = <<>>
  /\ op' = "delete"
  /\ args' = [remote_path |-> remote_path, file_name |-> file_name]
  /\ reqs' = <<Request("GET", ListUrl(remote_path), AuthHeader(token), Missing, Missing, EmptyBody)>>
  /\ resps' = <<Response(st, EmptyBody)>>
  /\ objs' = value
  /\ IF ListOk(st)
     THEN IF get_item_id(value, file_name) # ""
          THEN err' = NoErr /\ pc' = "delete"
          ELSE /\ err' = [site |-> "item_info", exc |-> "Exception", idx |-> 0]
               /\ pc' = "done"
     ELSE err' = Raise("list", st, 0) /\ pc' = "done"
  /\ UNCHANGED <<client, token, authCalls, authResults, authErr, idx, upload_url, io, files, ret, token0>>

\* the delete request of delete
delete_item(st) ==
  /\ pc = "delete"
  /\ LET item_id == get_item_id(objs, args.file_name) IN
     reqs' = Append(reqs, Request("DELETE", DeleteUrl(item_id), AuthHeader(token),
                                  Missing, Missing, EmptyBody))
  /\ resps' = Append(resps, Response(st, EmptyBody))
  /\ err' = IF DeleteOk(st) THEN NoErr ELSE Raise("delete", st, 0)
  /\ pc' = "done"
  /\ UNCHANGED <<client, token, authCalls, authResults, authErr, op, args, objs, idx, upload_url,
                 io, files, ret, token0>>

\* ---------------------------------------------------------------- upload
\* the createUploadSession request of upload
upload_session(file_name, remote_path, st, url) ==
  /\ pc = "idle"
  /\ op' = "upload"
  /\ args' = [remote_path |-> remote_path, file_name |-> file_name]
  /\ reqs' = <<Request("POST", SessionUrl(remote_path, file_name), AuthHeader(token),
                       Missing, Missing, EmptyBody)>>
  /\ resps' = <<Response(st, EmptyBody)>>
  /\ objs' = <<>>
  /\ IF SessionOk(st)
     THEN upload_url' = url /\ err' = NoErr /\ pc' = "upload"
     ELSE upload_url' = "" /\ err' = Raise("upload_session", st, 0) /\ pc' = "done"
  /\ UNCHANGED <<client, token, authCalls, authResults, authErr, idx, io, files, ret, token0>>

\* the exception that leaves the try block of upload: whatever is raised
\* inside it is caught by 'except Exception as err' and replaced by
\* raise f'...', which is a TypeError
UploadTryError(inner) == [site |-> "upload_except", exc |-> "TypeError", idx |-> 0]

\* the try block of upload: open, getsize, PUT
upload_put(st) ==
  /\ pc = "upload"
  /\ LET file_name == args.file_name IN
     IF file_name \notin DOMAIN files
     THEN \* open() raises FileNotFoundError
          /\ err' = UploadTryError([site |-> "open", exc |-> "FileNotFoundError", idx |-> 0])
          /\ UNCHANGED <<reqs, resps, io>>
     ELSE LET file_size == Len(files[file_name]) IN
          /\ io' = Append(io, [kind |-> "read", name |-> file_name, data |-> files[file_name]])
          /\ reqs' = Append(reqs, Request("PUT", upload_url, Missing, ContentLength(file_size),
                                         ContentRange(file_size), files[file_name]))
          /\ resps' = Append(resps, Response(st, EmptyBody))
          /\ err' = IF PutOk(st) THEN NoErr ELSE UploadTryError(Raise("upload_put", st, 0))
  /\ pc' = "done"
  /\ UNCHANGED <<client, token, authCalls, authResults, authErr, op, args, objs, idx, upload_url,
                 files, ret, token0>>

\* ---------------------------------------------------------------- return
\* the call returns or raises to the caller; its locals are gone
Return ==
  /\ pc = "done"
  /\ pc' = "idle"
  /\ op' = "none"
  /\ args' = NoArgs
  /\ objs' = <<>>
  /\ idx' = 0
  /\ upload_url' = ""
  /\ reqs' = <<>>
  /\ resps' = <<>>
  /\ io' = <<>>
  /\ ret' = <<>>
  /\ err' = NoErr
  /\ authResults' = <<>>
  /\ UNCHANGED <<client, token, authCalls, authErr, files, token0>>

Next ==
  \/ \E silent \in SilentResults, explicit \in ClientResults : Construct(silent, explicit)
  \/ \E p \in RemotePaths, st \in Statuses, value \in Listings : filenames(p, st, value)
  \/ \E p \in RemotePaths, st \in Statuses, value \in Listings : fetch_list(p, st, value)
  \/ \E st \in Statuses, data \in Blobs, writable \in BOOLEAN : fetch_obj(st, data, writable)
  \/ \E p \in RemotePaths, f \in Names, st \in Statuses, value \in Listings :
       delete_list(p, f, st, value)
  \/ \E st \in Statuses : delete_item(st)
  \/ \E f \in Names, p \in RemotePaths, st \in Statuses, url \in UploadUrls :
       upload_session(f, p, st, url)
  \/ \E st \in Statuses : upload_put(st)
  \/ Return

Spec == Init /\ [][Next]_vars

TypeOK ==
  /\ client \in {"absent", "ready", "failed"}
  /\ pc \in {"new", "idle", "fetch", "delete", "upload", "done", "dead"}
  /\ Len(reqs) = Len(resps)
  /\ DOMAIN files \subseteq Names

\* ======================================================== properties
\* C1: whenever the listing response of filenames has status 200, the call
\* returns, in listing order, exactly the names of the entries whose file flag
\* is true; an entry whose file flag is false contributes nothing.
C1_ListNamesFiltersInOrder ==
  (op = "filenames" /\ pc = "done" /\ resps[1].status = 200) =>
    LET sel == SelectSeq(objs, LAMBDA e : e.file) IN
    /\ err = NoErr
    /\ Len(ret) = Cardinality({i \in 1..Len(objs) : objs[i].file})
    /\ ret = [k \in 1..Len(sel) |-> sel[k].name]

C1_Witness ==
  /\ op = "filenames" /\ pc = "done" /\ resps[1].status = 200
  /\ Len(objs) = 2 /\ ~objs[1].file /\ objs[2].file
  /\ ret = <<objs[2].name>>

\* C2 (as claimed): when the listing and every download succeed (and no local
\* write fails), fetch ends without error having downloaded and written, in
\* order, exactly the file-entries that carry a download URL, each file named
\* after its entry and holding the downloaded bytes; a file-entry without a
\* download URL is skipped without any request or error.
C2_SkipsEntriesWithoutUrl ==
  (/\ op = "fetch" /\ pc = "done" /\ resps[1].status = 200
   /\ \A k \in 2..Len(resps) : resps[k].status = 200
   /\ err.site # "write") =>
    LET dl == SelectSeq(objs, LAMBDA e : e.file /\ e.downloadUrl # Missing) IN
    /\ err = NoErr
    /\ Len(reqs) = Len(dl) + 1
    /\ Len(io) = Len(dl)
    /\ \A k \in 1..Len(dl) :
         /\ reqs[k + 1].url = dl[k].downloadUrl
         /\ io[k] = [kind |-> "write", name |-> dl[k].name, data |-> resps[k + 1].content]
         /\ dl[k].name \in DOMAIN files

\* C3: when the download of entry i answers with a status other than 200,
\* fetch is over with the download error of entry i, the requests issued are
\* the listing and the downloads of the downloadable file-entries up to i, no
\* entry after i was requested, and the local writes are exactly those of the
\* downloadable file-entries before i, with the bytes downloaded for them.
C3_FetchFailFast ==
  (op = "fetch" /\ Len(resps) >= 2 /\ resps[Len(resps)].status # 200) =>
    LET i == CHOOSE j \in 1..Len(objs) : objs[j].downloadUrl = reqs[Len(reqs)].url
        before == SelectSeq(SubSeq(objs, 1, i - 1),
                            LAMBDA e : e.file /\ e.downloadUrl # Missing)
    IN /\ pc = "done"
       /\ err.site = "download" /\ err.idx = i /\ err.exc \in {"HTTPError", "Exception"}
       /\ Len(reqs) = Len(before) + 2
       /\ Len(io) = Len(before)
       /\ \A k \in 1..Len(before) :
            /\ reqs[k + 1].url = before[k].downloadUrl
            /\ io[k] = [kind |-> "write", name |-> before[k].name, data |-> resps[k + 1].content]
       /\ \A j \in (i + 1)..Len(objs) : \A k \in 1..Len(reqs) : reqs[k].url # objs[j].downloadUrl
       /\ \A j \in i..Len(objs) : \A k \in 1..Len(io) :
            io[k].name = objs[j].name => \E h \in 1..Len(before) : before[h].name = objs[j].name

C3_Witness ==
  /\ op = "fetch" /\ pc = "done" /\ err.site = "download" /\ err.idx = 1
  /\ Len(objs) = 2 /\ objs[2].file /\ objs[2].downloadUrl # Missing
  /\ Len(reqs) = 2 /\ io = <<>>

\* C4: delete on a 200 listing with no entry named file_name is over with the
\* "item info" failure and has issued no DELETE request.
C4_DeleteAbsentName ==
  (/\ op = "delete" /\ resps[1].status = 200
   /\ \A i \in 1..Len(objs) : objs[i].name # args.file_name) =>
    /\ pc = "done"
    /\ err.site = "item_info" /\ err.exc = "Exception"
    /\ Len(reqs) = 1
    /\ \A k \in 1..Len(reqs) : reqs[k].method # "DELETE"

C4_Witness ==
  /\ op = "delete" /\ pc = "done" /\ resps[1].status = 200
  /\ Len(objs) = 2 /\ \A i \in 1..Len(objs) : objs[i].name # args.file_name
  /\ err.site = "item_info"

\* C5: a finished delete on a 200 listing that contains an entry named
\* file_name issued exactly one DELETE request, to <base_url>/items/<id> of an
\* entry with that name; it succeeded iff the response status was 204 and
\* otherwise failed with the delete error.
C5_DeleteOneRequest ==
  (/\ op = "delete" /\ pc = "done" /\ resps[1].status = 200
   /\ \E i \in 1..Len(objs) : objs[i].name = args.file_name) =>
    /\ Len(reqs) = 2
    /\ {k \in 1..Len(reqs) : reqs[k].method = "DELETE"} = {2}
    /\ \E i \in 1..Len(objs) :
         /\ objs[i].name = args.file_name
         /\ reqs[2].url = base_url \o "/items/" \o objs[i].id
    /\ (err = NoErr) <=> (resps[2].status = 204)
    /\ resps[2].status # 204 =>
         (err.site = "delete" /\ err.exc \in {"HTTPError", "Exception"})

C5_Witness ==
  /\ op = "delete" /\ pc = "done" /\ Len(reqs) = 2
  /\ resps[2].status = 204 /\ err = NoErr
  /\ Len(objs) = 2 /\ objs[1].name = args.file_name /\ objs[2].name # args.file_name
  /\ reqs[2].url = base_url \o "/items/" \o objs[1].id

\* C6 (as claimed): with several entries named file_name the DELETE request
\* targets the id of the first of them in listing order.
C6_FirstMatchWins ==
  (op = "delete" /\ Len(reqs) = 2) =>
    LET m == {i \in 1..Len(objs) : objs[i].name = args.file_name}
        first == CHOOSE i \in m : \A j \in m : i <= j
    IN reqs[2].url = base_url \o "/items/" \o objs[first].id

\* C6 (amended): with several entries named file_name the DELETE request
\* targets the id of the last of them in listing order.
C6_LastMatchWins ==
  (op = "delete" /\ Len(reqs) = 2) =>
    LET m == {i \in 1..Len(objs) : objs[i].name = args.file_name}
        last == CHOOSE i \in m : \A j \in m : i >= j
    IN reqs[2].url = base_url \o "/items/" \o objs[last].id

C6_Witness ==
  /\ op = "delete" /\ Len(reqs) = 2 /\ Len(objs) = 2
  /\ objs[1].name = args.file_name /\ objs[2].name = args.file_name
  /\ objs[1].id # objs[2].id
  /\ reqs[2].url = base_url \o "/items/" \o objs[2].id

\* C7 (as claimed): after a 200 session creation, a finished upload of an
\* existing local file of size N issued one PUT of the whole file to the
\* upload URL with Content-Length "N" and Content-Range "bytes 0-(N-1)/N";
\* a 201 response means success and any other status a failure that reaches
\* the caller as the upload-transfer exception the code raises.
C7_UploadPut ==
  (/\ op = "upload" /\ pc = "done" /\ resps[1].status = 200
   /\ args.file_name \in DOMAIN files) =>
    LET N == Len(files[args.file_name]) IN
    /\ Len(reqs) = 2
    /\ reqs[2].method = "PUT" /\ reqs[2].url = upload_url
    /\ reqs[2].body = files[args.file_name]
    /\ N = 10 => (reqs[2].clen = "10" /\ reqs[2].crange = "bytes 0-9/10")
    /\ N = 0 => (reqs[2].clen = "0" /\ reqs[2].crange = "bytes 0--1/0")
    /\ resps[2].status = 201 => err = NoErr
    /\ resps[2].status # 201 => err.exc \in {"HTTPError", "Exception"}

\* C8: construction asks the provider silently first and explicitly only when
\* (and whenever) the silent answer is nothing; with an access token in the
\* resulting answer the client is ready and holds that token, otherwise
\* construction fails with the provider's error detail and the failed client
\* never issues a request.
C8_Construction ==
  /\ (op = "__init__" /\ pc \in {"done", "dead"}) =>
       LET answer == authResults[Len(authResults)] IN
       /\ Len(authCalls) \in {1, 2} /\ Len(authResults) = Len(authCalls)
       /\ authCalls[1] = "acquire_token_silent"
       /\ (Len(authCalls) = 2) <=> (authResults[1].none \/ authResults[1].keys = {})
       /\ Len(authCalls) = 2 => authCalls[2] = "acquire_token_for_client"
       /\ IF "access_token" \in answer.keys
          THEN client = "ready" /\ pc = "done" /\ token = answer.access_token
          ELSE /\ client = "failed" /\ pc = "dead" /\ token = ""
               /\ authErr = IF "error" \in answer.keys THEN answer.error ELSE "None"
  /\ client = "failed" => (pc = "dead" /\ reqs = <<>>)
  /\ client = "absent" => pc = "new"

C8_Witness ==
  /\ client = "failed" /\ pc = "dead"
  /\ authCalls = <<"acquire_token_silent", "acquire_token_for_client">>
  /\ authErr = "invalid_client"

\* C9: once the client is constructed no step changes the token or contacts
\* the token provider, and every listing, delete and upload-session request
\* carries "Bearer " followed by the token stored at construction.
C9_TokenWrittenOnce ==
  [][client = "ready" =>
       /\ token' = token
       /\ token' = token0
       /\ authCalls' = authCalls
       /\ \A k \in 1..Len(reqs') :
            (\/ reqs'[k].method \in {"DELETE", "POST"}
             \/ \E p \in RemotePaths : reqs'[k].url = ListUrl(p)) =>
              reqs'[k].auth = "Bearer " \o token0]_vars

C9_Witness ==
  /\ client = "ready" /\ token = FreshToken /\ token0 = FreshToken
  /\ DOMAIN files # {}
  /\ op = "delete" /\ pc = "done" /\ Len(reqs) = 2
  /\ resps[2].status = 401
  /\ reqs[1].auth = "Bearer tok-fresh" /\ reqs[2].auth = "Bearer tok-fresh"

\* C10: in fetch, delete and upload a second request is only ever issued, and
\* a local file only ever read or written, after the first request of the call
\* (children listing, upload-session creation) answered 200; on any other
\* answer the call is over with the listing error (fetch, delete) or the
\* session error (upload), one request issued and no local file touched.
C10_PrerequisiteFirst ==
  (op \in {"fetch", "delete", "upload"}) =>
    /\ reqs[1].method = IF op = "upload" THEN "POST" ELSE "GET"
    /\ reqs[1].url = IF op = "upload" THEN SessionUrl(args.remote_path, args.file_name)
                                       ELSE ListUrl(args.remote_path)
    /\ (Len(reqs) >= 2 \/ io # <<>>) => resps[1].status = 200
    /\ \A k \in 2..Len(reqs) : reqs[k].method = (CASE op = "fetch" -> "GET"
                                                   [] op = "delete" -> "DELETE"
                                                   [] op = "upload" -> "PUT")
    /\ resps[1].status # 200 =>
         /\ pc = "done"
         /\ err.site = IF op = "upload" THEN "upload_session" ELSE "list"
         /\ err.exc \in {"HTTPError", "Exception"}
         /\ Len(reqs) = 1
         /\ io = <<>>

C10_Witness ==
  /\ op = "upload" /\ pc = "done" /\ resps[1].status = 204
  /\ args.file_name \in DOMAIN files
  /\ err.site = "upload_session" /\ Len(reqs) = 1 /\ io = <<>>

====
